---- MODULE Spec2Model ----
(***************************************************************************)
(* rusty-herring: an interactive terminal launcher for executable scripts. *)
(*                                                                         *)
(* The module models                                                       *)
(*   - the Application State (struct App) and its transition operations,   *)
(*     as written in src/src/lib.rs and src/src/app.rs, and the variant of *)
(*     App::next written in src/src/main.rs;                               *)
(*   - the Script Runner, App::run_selected_script (src/src/app.rs);       *)
(*   - the View Controller / Input Loop, run_app (src/src/main.rs);        *)
(*   - the Description Extractor and the Directory Scanner                 *)
(*     (src/src/lib.rs, and the flat scan of src/src/main.rs).             *)
(*                                                                         *)
(* Text is a sequence of tokens; the token "\n" is a line feed and every   *)
(* other token is a run of characters without a line feed.                 *)
(*                                                                         *)
(* Six kinds of behaviour are specified:                                   *)
(*   Spec     the program: run_app entered from main with App::new of a    *)
(*            non-empty scan result, driven by terminal events;            *)
(*   SpecCtl  run_app handed an App on which show_help() may have been     *)
(*            called before the loop starts;                               *)
(*   SpecMain the whole of main: argument check, scan, terminal setup,     *)
(*            run_app, and the return from main;                           *)
(*   SpecApi  an App object driven through its public operations in any    *)
(*            order (as tests/integration_tests.rs does), for both         *)
(*            implementations of the operations;                           *)
(*   SpecDesc extract_description called on one file;                      *)
(*   SpecScan scan_directory called on one directory tree, for both        *)
(*            implementations of the scan.                                 *)
(***************************************************************************)
EXTENDS Integers, Sequences, FiniteSets, TLC

VARIABLES
    app,      \* the App struct: a record of its seven fields
    pc,       \* position of the control flow (loop position, or "api")
    frame,    \* the last frame painted on the terminal
    height,   \* current number of rows of the terminal
    hist,     \* the most recent operations / key events, newest first
    impl,     \* which impl App is in use: "lib" (lib.rs, app.rs) or "main"
    sys,      \* the process: inputs of main, terminal mode, guard, exit
    fs,       \* the file system handed to the scan: a directory or a file
    ret       \* what scan_directory / extract_description returned

vars == <<app, pc, frame, height, hist, impl, sys, fs, ret>>

----------------------------------------------------------------------------
(* Bounds of the model *)

\* largest number of scripts handed to App::new
MaxScripts == 2

\* number of lines the long script output has
LongLines == 14

\* largest max_scroll argument passed to scroll_output_down through the API
MaxScrollArg == 2

\* cap of selected_index for the wrapped comparison of main.rs App::next
MaxIndex == 3

\* terminal heights the environment switches between
ShortTerm == 24
TallTerm == 40

----------------------------------------------------------------------------
(* Program constants *)

\* main.rs:492   let visible = 20;
visible == 20

\* Layout rows taken by the title and the footer chunk, Length(3) each
TitleRows == 3
FooterRows == 3

\* ui.rs:130     chunks[1].height as usize - 2   (the two border rows)
BorderRows == 2

----------------------------------------------------------------------------
(* Text *)

NL == "\n"

RECURSIVE Repeat(_, _)
Repeat(s, n) == IF n = 0 THEN <<>> ELSE s \o Repeat(s, n - 1)

\* str::lines(): split at line feeds; a final line feed opens no new line
RECURSIVE SplitLines(_, _, _)
SplitLines(s, i, cur) ==
    IF i > Len(s)
    THEN IF cur = <<>> THEN <<>> ELSE <<cur>>
    ELSE IF s[i] = NL
         THEN <<cur>> \o SplitLines(s, i + 1, <<>>)
         ELSE SplitLines(s, i + 1, Append(cur, s[i]))

lines(s) == SplitLines(s, 1, <<>>)

\* usize::saturating_sub
saturating_sub(a, b) == IF a >= b THEN a - b ELSE 0

----------------------------------------------------------------------------
(* Script and App *)

Script(i) ==
    [path |-> <<"/scripts/", i>>, name |-> <<"script", i>>,
     description |-> "None", category |-> "None"]

ScriptList(n) == [i \in 1..n |-> Script(i)]

App_new(scripts) ==
    [scripts        |-> scripts,
     selected_index |-> 0,
     should_quit    |-> FALSE,
     viewing_output |-> FALSE,
     output_text    |-> <<>>,
     output_scroll  |-> 0,
     showing_help   |-> FALSE]

next_rotate(a) ==
    IF a.scripts = <<>> THEN a
    ELSE [a EXCEPT !.scripts = Append(Tail(@), Head(@))]

next_noclamp(a) == [a EXCEPT !.selected_index = @ + 1]

\* lib.rs / app.rs: guarded by len().saturating_sub(1)
next(a) ==
    IF a.selected_index < saturating_sub(Len(a.scripts), 1)
    THEN [a EXCEPT !.selected_index = @ + 1]
    ELSE a

main_next_noclamp(a) ==
    {[app |-> [a EXCEPT !.selected_index = @ + 1], panic |-> FALSE]}

\* main.rs: guarded by len() - 1, a usize subtraction.  With an empty list
\* 0 - 1 overflows: a build with overflow checks panics, a build without
\* them wraps to usize::MAX, which is above every index, so the guard holds.
main_next(a) ==
    IF Len(a.scripts) = 0
    THEN {[app |-> a, panic |-> TRUE],
          [app |-> [a EXCEPT !.selected_index = @ + 1], panic |-> FALSE]}
    ELSE {[app |-> IF a.selected_index < Len(a.scripts) - 1
                   THEN [a EXCEPT !.selected_index = @ + 1]
                   ELSE a,
           panic |-> FALSE]}

previous(a) ==
    IF a.selected_index > 0
    THEN [a EXCEPT !.selected_index = @ - 1]
    ELSE a

quit(a) == [a EXCEPT !.should_quit = TRUE]

scroll_output_up_unguarded(a) == [a EXCEPT !.output_scroll = @ - 1]

scroll_output_up_floor1(a) ==
    IF a.output_scroll > 1
    THEN [a EXCEPT !.output_scroll = @ - 1]
    ELSE a

scroll_output_up(a) ==
    IF a.output_scroll > 0
    THEN [a EXCEPT !.output_scroll = @ - 1]
    ELSE a

scroll_output_down_uncapped(a, max_scroll) ==
    [a EXCEPT !.output_scroll = @ + 1]

scroll_output_down(a, max_scroll) ==
    IF a.output_scroll < max_scroll
    THEN [a EXCEPT !.output_scroll = @ + 1]
    ELSE a

show_help_leaving_output(a) ==
    [a EXCEPT !.showing_help = TRUE, !.viewing_output = FALSE]

show_help(a) == [a EXCEPT !.showing_help = TRUE]

hide_help(a) == [a EXCEPT !.showing_help = FALSE]

back_to_list_keeptext(a) ==
    [a EXCEPT !.viewing_output = FALSE, !.output_scroll = 0]

back_to_list_keepscroll(a) ==
    [a EXCEPT !.viewing_output = FALSE,
              !.output_text = <<>>]

back_to_list(a) ==
    [a EXCEPT !.viewing_output = FALSE,
              !.output_text = <<>>,
              !.output_scroll = 0]

----------------------------------------------------------------------------
(* Script Runner: App::run_selected_script, src/src/app.rs *)

\* The check mark and the ballot x that open the two headers are written
\* by their code points.
SuccessHeader == "(U+2713) Script completed successfully"
FailureHeader == "(U+2717) Script failed"

Placeholder == <<"Running script...", NL, NL, "Please wait...">>

Some(v) == [some |-> TRUE, v |-> v]
None == [some |-> FALSE, v |-> 0]
unwrap_or_zero(o, d) == IF o.some THEN o.v ELSE 0
unwrap_or(o, d) == IF o.some THEN o.v ELSE d

\* String::from_utf8_lossy: an invalid byte sequence becomes U+FFFD
from_utf8_lossy(bytes) ==
    [i \in 1..Len(bytes) |-> IF bytes[i] = "0xFF" THEN "U+FFFD" ELSE bytes[i]]

\* what a child process can hand back: ExitStatus::code(), stdout, stderr
ExitCodes == {Some(0), Some(2), None}
Stdouts == {<<>>, <<"hi", NL>>, Repeat(<<"line", NL>>, LongLines)}
Stderrs == {<<>>, <<"boom">>}

\* std::io::Error values, by their Display text
DrawErrors == {"terminal write failed"}
SpawnErrors == {"No such file or directory (os error 2)",
                "Permission denied (os error 13)"}

format_report_raw(code_opt, out_bytes, err_bytes) ==
    LET stdout == from_utf8_lossy(out_bytes)
        stderr == from_utf8_lossy(err_bytes)
        code   == unwrap_or(code_opt, -1)
    IN  IF code = 0
        THEN <<SuccessHeader, NL, "Exit code: 0", NL, NL, "=== OUTPUT ===", NL>>
             \o stdout \o <<NL, NL, "=== ERRORS ===", NL>> \o stderr
        ELSE <<FailureHeader, NL, "Exit code: ", ToString(code), NL, NL,
               "=== OUTPUT ===", NL>>
             \o stdout \o <<NL, NL, "=== ERRORS ===", NL>> \o stderr

\* app.rs:83-122
format_report(code_opt, out_bytes, err_bytes) ==
    LET stdout == from_utf8_lossy(out_bytes)
        stderr == from_utf8_lossy(err_bytes)
        code   == unwrap_or(code_opt, -1)
        out    == IF stdout = <<>> THEN <<"(no output)">> ELSE stdout
        err    == IF stderr = <<>> THEN <<"(none)">> ELSE stderr
    IN  IF code = 0
        THEN <<SuccessHeader, NL, "Exit code: 0", NL, NL, "=== OUTPUT ===", NL>>
             \o out \o <<NL, NL, "=== ERRORS ===", NL>> \o err
        ELSE <<FailureHeader, NL, "Exit code: ", ToString(code), NL, NL,
               "=== OUTPUT ===", NL>>
             \o out \o <<NL, NL, "=== ERRORS ===", NL>> \o err

Reports ==
    {format_report(c, o, e) : c \in ExitCodes, o \in Stdouts, e \in Stderrs}

\* app.rs:71   &self.scripts[self.selected_index] panics when out of bounds
index_in_bounds(a) == a.selected_index < Len(a.scripts)

set_placeholder_viewonly(a) == [a EXCEPT !.viewing_output = TRUE]

\* app.rs:73-75
set_placeholder(a) ==
    [a EXCEPT !.output_text = Placeholder, !.viewing_output = TRUE]

set_error_swallowed(a, e) == a

\* main.rs:522-525   the Err arm around run_selected_script
error_text(e) == <<"Error:", NL, e>>
set_error(a, e) ==
    [a EXCEPT !.output_text = error_text(e), !.viewing_output = TRUE]

----------------------------------------------------------------------------
(* Rendering geometry *)

\* Layout [Length(3), Min(0), Length(3)] over h rows: the middle chunk
chunk_height(h) == IF h >= TitleRows + FooterRows
                   THEN h - TitleRows - FooterRows ELSE 0

\* ui.rs:130 / main.rs:570  (terminals of the model have at least 8 rows)
visible_height(h) == chunk_height(h) - BorderRows

\* ui.rs:136-138   the slice lines[start..end] of render_output_view
slice_start(a) == a.output_scroll
slice_end(a, h) ==
    IF slice_start(a) + visible_height(h) < Len(lines(a.output_text))
    THEN slice_start(a) + visible_height(h)
    ELSE Len(lines(a.output_text))

TermHeights == {ShortTerm, TallTerm}

\* what terminal.draw paints: the frame of run_app (main.rs:403-477) is the
\* list, whatever the App holds; render_output_view paints the output text
ListFrame(a) ==
    [by |-> "run_app", view |-> "List", text |-> <<>>,
     selected |-> a.selected_index]
OutputFrame(a) ==
    [by |-> "run_selected_script", view |-> "Output", text |-> a.output_text,
     selected |-> a.selected_index]
NoFrame == [by |-> "none", view |-> "none", text |-> <<>>, selected |-> 0]

----------------------------------------------------------------------------
(* The process around the App: main, src/src/main.rs:688-720 *)

\* Result<Vec<Script>, io::Error> of scan_directory
ScanOk(scripts) == [ok |-> TRUE, scripts |-> scripts]
ScanErr == [ok |-> FALSE, scripts |-> <<>>]

\* args:       a directory argument was given (args.len() >= 2)
\* scan:       what scan_directory returns for it
\* raw_mode, alt_screen: the mode the terminal is in
\* guard:      a TerminalGuard is alive
\* exited, status: the process has ended, with this exit status
Process(args, scan) ==
    [args |-> args, scan |-> scan, raw_mode |-> FALSE, alt_screen |-> FALSE,
     guard |-> FALSE, exited |-> FALSE, status |-> 0]

\* main.rs:705-710   the terminal as main hands it to run_app
InLoop(scripts) ==
    [Process(TRUE, ScanOk(scripts)) EXCEPT
        !.raw_mode = TRUE, !.alt_screen = TRUE, !.guard = TRUE]

\* an App built by a test: no argument, no scan, no terminal
NoProcess == Process(FALSE, ScanErr)

----------------------------------------------------------------------------
(* Description Extractor: extract_description, src/src/lib.rs:81-115 *)
(* (the same text in src/src/script.rs:13-49 and src/src/main.rs:175-212) *)

\* A file is what File::open and BufRead::lines give: whether it opens,
\* and its lines without their line ends.  A line is a sequence of
\* characters; the character "0xFF" is a byte that is no UTF-8, for which
\* lines() yields an Err instead of the line.
Chars == {" ", "#", "!", "/", "-", "x"}
BadLine == <<"0xFF">>

\* longest line and largest number of lines of a file of the model
MaxLineLen == 3
MaxLines == 2

SeqsUpTo(S, n) == UNION {[1..k -> S] : k \in 0..n}
FileLines == SeqsUpTo(Chars, MaxLineLen) \cup {BadLine}
File(open_ok, ls) == [open_ok |-> open_ok, lines |-> ls]
Files ==
    {File(FALSE, <<>>)} \cup {File(TRUE, ls) : ls \in SeqsUpTo(FileLines, MaxLines)}

\* no file system is involved / nothing was returned
NoFs == File(FALSE, <<>>)
NoRet == [ok |-> FALSE, called |-> FALSE]

\* Result<Option<String>, io::Error>
DescOk(o) == [ok |-> TRUE, called |-> TRUE, v |-> o]
DescErr == [ok |-> FALSE, called |-> TRUE, v |-> None]

result_unwrap_or_unknown(r, d) == IF r.ok THEN r.v ELSE Some(<<"unknown">>)

\* Result::unwrap_or
result_unwrap_or(r, d) == IF r.ok THEN r.v ELSE d

is_utf8(l) == \A i \in 1..Len(l) : l[i] # "0xFF"

\* str::trim: white space off both ends
is_whitespace(c) == c = " "
RECURSIVE trim_start(_)
trim_start(l) ==
    IF l # <<>> /\ is_whitespace(Head(l)) THEN trim_start(Tail(l)) ELSE l
RECURSIVE trim_end(_)
trim_end(l) ==
    IF l # <<>> /\ is_whitespace(l[Len(l)])
    THEN trim_end(SubSeq(l, 1, Len(l) - 1)) ELSE l
trim(l) == trim_end(trim_start(l))

\* str::starts_with and str::strip_prefix
starts_with(l, p) == Len(l) >= Len(p) /\ SubSeq(l, 1, Len(p)) = p
strip_prefix(l, p) ==
    IF starts_with(l, p) THEN Some(SubSeq(l, Len(p) + 1, Len(l))) ELSE None

\* lib.rs:93-101   the text after the comment marker, if the line has one
comment_text(trimmed) ==
    IF starts_with(trimmed, <<"#">>) THEN strip_prefix(trimmed, <<"#">>)
    ELSE IF starts_with(trimmed, <<"/", "/">>)
         THEN strip_prefix(trimmed, <<"/", "/">>)
    ELSE IF starts_with(trimmed, <<"-", "-">>)
         THEN strip_prefix(trimmed, <<"-", "-">>)
    ELSE None

RECURSIVE extract_lines_nobreak(_, _)
extract_lines_nobreak(ls, i) ==
    IF i > Len(ls) THEN DescOk(None)
    ELSE IF ~is_utf8(ls[i]) THEN DescErr
    ELSE LET trimmed == trim(ls[i])
             desc == comment_text(trimmed)
         IN  IF trimmed = <<>> \/ starts_with(trimmed, <<"#", "!">>)
             THEN extract_lines_nobreak(ls, i + 1)
             ELSE IF desc.some /\ trim(desc.v) # <<>>
                  THEN DescOk(Some(trim(desc.v)))
                  ELSE extract_lines_nobreak(ls, i + 1)

\* lib.rs:85-114   the loop over reader.lines(), from line i on
RECURSIVE extract_lines(_, _)
extract_lines(ls, i) ==
    IF i > Len(ls) THEN DescOk(None)
    ELSE IF ~is_utf8(ls[i]) THEN DescErr
    ELSE LET trimmed == trim(ls[i])
             desc == comment_text(trimmed)
         IN  IF trimmed = <<>> \/ starts_with(trimmed, <<"#", "!">>)
             THEN extract_lines(ls, i + 1)
             ELSE IF desc.some
                  THEN IF trim(desc.v) # <<>>
                       THEN DescOk(Some(trim(desc.v)))
                       ELSE extract_lines(ls, i + 1)
                  ELSE DescOk(None)

extract_description_notrim(f) ==
    IF ~f.open_ok THEN DescErr
    ELSE LET r == extract_lines(f.lines, 1)
         IN  IF r.ok /\ r.v.some THEN DescOk(Some(<<" ">> \o r.v.v)) ELSE r

\* lib.rs:81-115
extract_description(f) ==
    IF ~f.open_ok THEN DescErr ELSE extract_lines(f.lines, 1)

\* extract_description is called on one file
ExtractDescription ==
    /\ pc = "extract"
    /\ ret' = extract_description(fs)
    /\ pc' = "extracted"
    /\ UNCHANGED <<app, frame, height, hist, impl, sys, fs>>

InitDesc ==
    /\ app = App_new(<<>>)
    /\ pc = "extract"
    /\ frame = NoFrame
    /\ height = ShortTerm
    /\ hist = <<>>
    /\ impl = "lib"
    /\ sys = NoProcess
    /\ fs \in Files
    /\ ret = NoRet

NextDesc == ExtractDescription

SpecDesc == InitDesc /\ [][NextDesc]_vars

----------------------------------------------------------------------------
(* Directory Scanner: scan_directory, src/src/lib.rs:117-171, and the     *)
(* scan_directory of src/src/main.rs:214-250                               *)

\* The permission bits of a mode are a set; 0o111 is the three execute bits.
ExecBits == {"u+x", "g+x", "o+x"}

\* lib.rs:150   permissions.mode() & 0o111 != 0
is_executable(mode) == mode \cap ExecBits # {}

\* An entry of a directory that is no directory: whether fs::metadata
\* succeeds on it, its mode, and the file behind it.
FileEntry(meta_ok, mode, file) ==
    [kind |-> "file", meta_ok |-> meta_ok, mode |-> mode, file |-> file]

\* A directory: whether fs::read_dir succeeds on it, and its entries in
\* the order read_dir yields them.
DirEntry(read_ok, entries) ==
    [kind |-> "dir", read_ok |-> read_ok, entries |-> entries]

\* the files of the model: a data file with a comment, a script of the owner
\* with a description, a script of the group without one, a script that
\* cannot be opened, a binary executable, and a dangling symbolic link
FileEntries ==
    {FileEntry(TRUE, {"u+r"}, File(TRUE, << <<"#", " ", "x">> >>)),
     FileEntry(TRUE, {"u+r", "u+x"},
               File(TRUE, << <<"#", "!">>, <<"#", " ", "x">> >>)),
     FileEntry(TRUE, {"u+r", "g+x"}, File(TRUE, << <<"x">> >>)),
     FileEntry(TRUE, {"o+x"}, File(FALSE, <<>>)),
     FileEntry(TRUE, {"u+r", "u+x", "g+x", "o+x"}, File(TRUE, <<BadLine>>)),
     FileEntry(FALSE, {}, File(FALSE, <<>>))}

\* depth of the deepest directory below the root, largest number of entries
\* of a directory, largest number of directories among them
MaxDepth == 2
MaxEntries == 2
MaxSubdirs == 1

\* the directories with at most d levels of directories below them
RECURSIVE DirsAt(_)
DirsAt(d) ==
    LET entries == FileEntries \cup (IF d = 0 THEN {} ELSE DirsAt(d - 1))
        listings ==
            {l \in SeqsUpTo(entries, MaxEntries) :
                Cardinality({i \in 1..Len(l) : l[i].kind = "dir"}) <= MaxSubdirs}
    IN  {DirEntry(FALSE, <<>>)} \cup {DirEntry(TRUE, l) : l \in listings}

Roots == DirsAt(MaxDepth)

\* entry i of a directory is named after its kind and its position; a path
\* is the sequence of the names from the root down
entry_name(e, i) == <<e.kind, i>>
RootPath == << <<"root", 0>> >>

\* lib.rs:134   path.is_dir()
is_dir(e) == e.kind = "dir"

category_of_outermost(subdir_name, category) ==
    IF category.some THEN category ELSE Some(subdir_name)

\* lib.rs:143   the category handed to the scan of a subdirectory
category_of(subdir_name, category) == Some(subdir_name)

\* lib.rs:159   extract_description(&path_str).unwrap_or(None)
description_of(e) == result_unwrap_or(extract_description(e.file), None)

\* lib.rs:161-166
NewScript(path, name, description, category) ==
    [path |-> path, name |-> name, description |-> description,
     category |-> category]

RECURSIVE scan_directory_recursive(_, _, _, _)
RECURSIVE scan_entries(_, _, _, _, _)

\* lib.rs:130-168   the loop over the entries, from entry i on
scan_entries(entries, i, path, category, scripts) ==
    IF i > Len(entries) THEN ScanOk(scripts)
    ELSE LET e == entries[i]
             name == entry_name(e, i)
             p == Append(path, name)
         IN  IF is_dir(e)
             THEN LET r == scan_directory_recursive(
                              e, p, category_of(name, category), scripts)
                  IN  IF r.ok
                      THEN scan_entries(entries, i + 1, path, category,
                                        r.scripts)
                      ELSE ScanErr
             ELSE IF ~e.meta_ok THEN ScanErr
             ELSE IF is_executable(e.mode)
                  THEN scan_entries(entries, i + 1, path, category,
                          Append(scripts,
                                 NewScript(p, name, description_of(e),
                                           category)))
                  ELSE scan_entries(entries, i + 1, path, category, scripts)

\* lib.rs:123-171
scan_directory_recursive(dir, path, category, scripts) ==
    IF ~dir.read_ok THEN ScanErr
    ELSE scan_entries(dir.entries, 1, path, category, scripts)

\* lib.rs:117-121
scan_directory(dir) == scan_directory_recursive(dir, RootPath, None, <<>>)

\* main.rs:218-248   the loop over the entries, from entry i on; the Script
\* of main.rs has no category field
RECURSIVE main_scan_entries(_, _, _, _)
main_scan_entries(entries, i, path, scripts) ==
    IF i > Len(entries) THEN ScanOk(scripts)
    ELSE LET e == entries[i]
             name == entry_name(e, i)
             p == Append(path, name)
         IN  IF is_dir(e)
             THEN main_scan_entries(entries, i + 1, path, scripts)
             ELSE IF ~e.meta_ok THEN ScanErr
             ELSE IF is_executable(e.mode)
                  THEN main_scan_entries(entries, i + 1, path,
                          Append(scripts,
                                 NewScript(p, name, description_of(e), None)))
                  ELSE main_scan_entries(entries, i + 1, path, scripts)

\* main.rs:214-250
main_scan_directory(dir) ==
    IF ~dir.read_ok THEN ScanErr
    ELSE main_scan_entries(dir.entries, 1, RootPath, <<>>)

\* what scan_directory returned
Scanned(r) == [ok |-> r.ok, called |-> TRUE, scripts |-> r.scripts]

\* scan_directory of lib.rs is called on a root
ScanDirectory ==
    /\ pc = "scan"
    /\ impl = "lib"
    /\ ret' = Scanned(scan_directory(fs))
    /\ pc' = "scanned"
    /\ UNCHANGED <<app, frame, height, hist, impl, sys, fs>>

\* scan_directory of main.rs is called on a root
MainScanDirectory ==
    /\ pc = "scan"
    /\ impl = "main"
    /\ ret' = Scanned(main_scan_directory(fs))
    /\ pc' = "scanned"
    /\ UNCHANGED <<app, frame, height, hist, impl, sys, fs>>

InitScan ==
    /\ app = App_new(<<>>)
    /\ pc = "scan"
    /\ frame = NoFrame
    /\ height = ShortTerm
    /\ hist = <<>>
    /\ impl \in {"lib", "main"}
    /\ sys = NoProcess
    /\ fs \in Roots
    /\ ret = NoRet

NextScan ==
    \/ ScanDirectory
    \/ MainScanDirectory

SpecScan == InitScan /\ [][NextScan]_vars

----------------------------------------------------------------------------
(* View Controller / Input Loop: run_app, src/src/main.rs:397-536 *)

UpKeys == {"Up", "k"}
DownKeys == {"Down", "j"}
QuitKeys == {"q", "Esc"}
\* "x" stands for every key without a meaning of its own
Keys == UpKeys \cup DownKeys \cup QuitKeys \cup {"Enter", "?", "x"}

\* an operation or key event: arg is the argument of an operation, or the
\* terminal height at the time of a key event; pre is the App before it
\* output is what the child run by the event handed back, once it exited
NoOutput == [exited |-> FALSE, code |-> None, stdout |-> <<>>, stderr |-> <<>>]
Output(c, o, e) == [exited |-> TRUE, code |-> c, stdout |-> o, stderr |-> e]
Event(op, key, arg, pre) ==
    [op |-> op, key |-> key, arg |-> arg, pre |-> pre, output |-> NoOutput]

\* main.rs:484-510   the block guarded by app.viewing_output
output_keys(a, k) ==
    IF a.viewing_output
    THEN LET total == Len(lines(a.output_text))
             max_scroll == saturating_sub(total, visible)
         IN  CASE k \in UpKeys   -> scroll_output_up(a)
               [] k \in DownKeys -> scroll_output_down(a, max_scroll)
               [] OTHER          -> back_to_list(a)
    ELSE a

\* main.rs:511-528   the match that follows it, for every key but Enter
list_keys(a, k) ==
    CASE k \in QuitKeys -> {[app |-> quit(a), panic |-> FALSE]}
      [] k \in DownKeys -> main_next(a)
      [] k \in UpKeys   -> {[app |-> previous(a), panic |-> FALSE]}
      [] OTHER          -> {[app |-> a, panic |-> FALSE]}

after_event_nobreak(a) == "draw"

\* main.rs:531-533   if app.should_quit { break; }
after_event(a) == IF a.should_quit THEN "exited" ELSE "draw"

\* main.rs:403-477   terminal.draw(..)? paints the list
Draw ==
    /\ pc = "draw"
    /\ frame' = ListFrame(app)
    /\ pc' = "poll"
    /\ UNCHANGED <<app, height, hist, impl, sys, fs, ret>>

\* main.rs:477   the draw fails and ? returns the error from run_app
DrawFail ==
    /\ pc = "draw"
    /\ pc' = "failed"
    /\ UNCHANGED <<app, frame, height, hist, impl, sys, fs, ret>>

\* main.rs:480   event::poll(100 ms) reports no event
PollTimeout ==
    /\ pc = "poll"
    /\ pc' = "draw"
    /\ UNCHANGED <<app, frame, height, hist, impl, sys, fs, ret>>

\* main.rs:480,483   event::poll or event::read fails
PollFail ==
    /\ pc = "poll"
    /\ pc' = "failed"
    /\ UNCHANGED <<app, frame, height, hist, impl, sys, fs, ret>>

\* main.rs:483   an event that is no key: the terminal was resized
Resize ==
    /\ pc = "poll"
    /\ \E h \in TermHeights \ {height} : height' = h
    /\ pc' = after_event(app)
    /\ UNCHANGED <<app, frame, hist, impl, sys, fs, ret>>

\* main.rs:483-533   a key other than Enter
KeyPress ==
    /\ pc = "poll"
    /\ \E k \in Keys \ {"Enter"} :
         \E o \in list_keys(output_keys(app, k), k) :
            /\ app' = o.app
            /\ pc' = IF o.panic THEN "panic" ELSE after_event(o.app)
            /\ hist' = <<Event("key", k, height, app)>>
    /\ UNCHANGED <<frame, height, impl, sys, fs, ret>>

\* main.rs:483-526 with app.rs:71-79   Enter, up to the placeholder frame
KeyEnter ==
    /\ pc = "poll"
    /\ LET a1 == output_keys(app, "Enter")
       IN  /\ hist' = <<Event("key", "Enter", height, app)>>
           /\ IF ~index_in_bounds(a1)
              THEN /\ pc' = "panic"
                   /\ UNCHANGED <<app, frame>>
              ELSE \/ /\ app' = set_placeholder(a1)
                      /\ frame' = OutputFrame(set_placeholder(a1))
                      /\ pc' = "spawn"
                   \/ \E e \in DrawErrors :
                        /\ app' = set_error(set_placeholder(a1), e)
                        /\ pc' = after_event(app')
                        /\ UNCHANGED frame
    /\ UNCHANGED <<height, impl, sys, fs, ret>>

\* app.rs:81   Command::new(path).output() starts the child
Spawn ==
    /\ pc = "spawn"
    /\ pc' = "wait"
    /\ UNCHANGED <<app, frame, height, hist, impl, sys, fs, ret>>

\* app.rs:81 with main.rs:522-525   the child cannot be started
SpawnFail ==
    /\ pc = "spawn"
    /\ \E e \in SpawnErrors : app' = set_error(app, e)
    /\ pc' = after_event(app')
    /\ UNCHANGED <<frame, height, hist, impl, sys, fs, ret>>

\* app.rs:81-124   the child exits and the report is written
ChildExit ==
    /\ pc = "wait"
    /\ \E c \in ExitCodes, o \in Stdouts, e \in Stderrs :
         /\ app' = [app EXCEPT !.output_text = format_report(c, o, e)]
         /\ hist' = <<[hist[1] EXCEPT !.output = Output(c, o, e)]>>
    /\ pc' = after_event(app')
    /\ UNCHANGED <<frame, height, impl, sys, fs, ret>>

\* main.rs:696-717   run_app is entered with App::new of a non-empty scan
Init ==
    /\ \E n \in 1..MaxScripts : app = App_new(ScriptList(n))
    /\ pc = "draw"
    /\ frame = NoFrame
    /\ height \in TermHeights
    /\ hist = <<>>
    /\ impl = "main"
    /\ sys = InLoop(app.scripts)
    /\ fs = NoFs
    /\ ret = NoRet

\* run_app handed an App that show_help() may have been called on
InitCtl ==
    /\ \E n \in 1..MaxScripts, h \in BOOLEAN :
         app = IF h THEN show_help(App_new(ScriptList(n)))
                    ELSE App_new(ScriptList(n))
    /\ pc = "draw"
    /\ frame = NoFrame
    /\ height \in TermHeights
    /\ hist = <<>>
    /\ impl = "main"
    /\ sys = InLoop(app.scripts)
    /\ fs = NoFs
    /\ ret = NoRet

Next ==
    \/ Draw
    \/ DrawFail
    \/ PollTimeout
    \/ PollFail
    \/ Resize
    \/ KeyPress
    \/ KeyEnter
    \/ Spawn
    \/ SpawnFail
    \/ ChildExit

Spec == Init /\ [][Next]_vars

SpecCtl == InitCtl /\ [][Next]_vars

----------------------------------------------------------------------------
(* main, src/src/main.rs:688-720, around run_app *)

\* before main.rs:716 there is no App; pc tells
NoApp == App_new(<<>>)

scan_never_empty(scripts) == FALSE

\* main.rs:699   scripts.is_empty()
scan_is_empty(scripts) == Len(scripts) = 0

\* main.rs:168-173   Drop for TerminalGuard
drop_guard(p) ==
    [p EXCEPT !.raw_mode = FALSE, !.alt_screen = FALSE, !.guard = FALSE]

\* the process ends with this status; a live guard is dropped on the way
exit(p, status) ==
    [(IF p.guard THEN drop_guard(p) ELSE p) EXCEPT
        !.exited = TRUE, !.status = status]

\* main.rs:691-694   no directory argument: usage, Ok(())
MainNoArgs ==
    /\ pc = "start"
    /\ ~sys.args
    /\ pc' = "done"
    /\ sys' = exit(sys, 0)
    /\ UNCHANGED <<app, frame, height, hist, impl, fs, ret>>

\* main.rs:697   scan_directory(directory)? returns the error
MainScanFail ==
    /\ pc = "start"
    /\ sys.args
    /\ ~sys.scan.ok
    /\ pc' = "done"
    /\ sys' = exit(sys, 1)
    /\ UNCHANGED <<app, frame, height, hist, impl, fs, ret>>

\* main.rs:699-702   nothing found: message, Ok(())
MainScanEmpty ==
    /\ pc = "start"
    /\ sys.args
    /\ sys.scan.ok
    /\ scan_is_empty(sys.scan.scripts)
    /\ pc' = "done"
    /\ sys' = exit(sys, 0)
    /\ UNCHANGED <<app, frame, height, hist, impl, fs, ret>>

\* main.rs:697-704   scripts found: on to the terminal setup
MainScanFound ==
    /\ pc = "start"
    /\ sys.args
    /\ sys.scan.ok
    /\ ~scan_is_empty(sys.scan.scripts)
    /\ pc' = "enable_raw"
    /\ UNCHANGED <<app, frame, height, hist, impl, sys, fs, ret>>

\* main.rs:705   enable_raw_mode()?
EnableRawMode ==
    /\ pc = "enable_raw"
    /\ sys' = [sys EXCEPT !.raw_mode = TRUE]
    /\ pc' = "enter_alt"
    /\ UNCHANGED <<app, frame, height, hist, impl, fs, ret>>

EnableRawModeFail ==
    /\ pc = "enable_raw"
    /\ pc' = "done"
    /\ sys' = exit(sys, 1)
    /\ UNCHANGED <<app, frame, height, hist, impl, fs, ret>>

\* main.rs:706-710   execute!(stdout, EnterAlternateScreen)?, then the guard
EnterAlternateScreen ==
    /\ pc = "enter_alt"
    /\ sys' = [sys EXCEPT !.alt_screen = TRUE, !.guard = TRUE]
    /\ pc' = "terminal"
    /\ UNCHANGED <<app, frame, height, hist, impl, fs, ret>>

\* main.rs:707   the ? returns before the guard of line 710 exists
EnterAlternateScreenFail ==
    /\ pc = "enter_alt"
    /\ pc' = "done"
    /\ sys' = exit(sys, 1)
    /\ UNCHANGED <<app, frame, height, hist, impl, fs, ret>>

\* main.rs:712-717   Terminal::new(backend)?, App::new(scripts), run_app
TerminalNew ==
    /\ pc = "terminal"
    /\ app' = App_new(sys.scan.scripts)
    /\ pc' = "draw"
    /\ UNCHANGED <<frame, height, hist, impl, sys, fs, ret>>

TerminalNewFail ==
    /\ pc = "terminal"
    /\ pc' = "done"
    /\ sys' = exit(sys, 1)
    /\ UNCHANGED <<app, frame, height, hist, impl, fs, ret>>

\* main.rs:717-720   run_app returned Ok or Err, or a panic unwinds main
MainReturn ==
    /\ pc \in {"exited", "failed", "panic"}
    /\ pc' = "done"
    /\ sys' = exit(sys, CASE pc = "exited" -> 0
                          [] pc = "failed" -> 1
                          [] pc = "panic"  -> 101)
    /\ UNCHANGED <<app, frame, height, hist, impl, fs, ret>>

\* the process is started with or without an argument, on any directory
InitMain ==
    /\ app = NoApp
    /\ pc = "start"
    /\ frame = NoFrame
    /\ height \in TermHeights
    /\ hist = <<>>
    /\ impl = "main"
    /\ \E a \in BOOLEAN :
         \E sc \in {ScanErr} \cup {ScanOk(ScriptList(n)) : n \in 0..MaxScripts} :
            sys = Process(a, sc)
    /\ fs = NoFs
    /\ ret = NoRet

NextMain ==
    \/ MainNoArgs
    \/ MainScanFail
    \/ MainScanEmpty
    \/ MainScanFound
    \/ EnableRawMode
    \/ EnableRawModeFail
    \/ EnterAlternateScreen
    \/ EnterAlternateScreenFail
    \/ TerminalNew
    \/ TerminalNewFail
    \/ MainReturn
    \/ Next

SpecMain == InitMain /\ [][NextMain]_vars

----------------------------------------------------------------------------
(* The App object driven through its operations, in any order *)

\* the newest two operations are remembered
Push(e) == IF hist = <<>> THEN <<e>> ELSE <<e, hist[1]>>

ApiStep(op, arg, a) ==
    /\ pc = "api"
    /\ app' = a
    /\ hist' = Push(Event(op, "", arg, app))
    /\ UNCHANGED <<pc, frame, height, impl, sys, fs, ret>>

\* App::next of lib.rs / app.rs, or of main.rs
ApiNext ==
    /\ pc = "api"
    /\ app.selected_index < MaxIndex
    /\ \E o \in (IF impl = "lib" THEN {[app |-> next(app), panic |-> FALSE]}
                                 ELSE main_next(app)) :
         /\ app' = o.app
         /\ pc' = IF o.panic THEN "panic" ELSE "api"
    /\ hist' = Push(Event("next", "", 0, app))
    /\ UNCHANGED <<frame, height, impl, sys, fs, ret>>

ApiPrevious == ApiStep("previous", 0, previous(app))

ApiQuit == ApiStep("quit", 0, quit(app))

ApiScrollUp == ApiStep("scroll_output_up", 0, scroll_output_up(app))

ApiScrollDown ==
    \E n \in 0..MaxScrollArg :
        ApiStep("scroll_output_down", n, scroll_output_down(app, n))

ApiShowHelp == ApiStep("show_help", 0, show_help(app))

ApiHideHelp == ApiStep("hide_help", 0, hide_help(app))

ApiBackToList == ApiStep("back_to_list", 0, back_to_list(app))

\* app.rs:67-125   one whole call of run_selected_script
ApiRunSelectedScript ==
    /\ pc = "api"
    /\ hist' = Push(Event("run_selected_script", "", 0, app))
    /\ IF ~index_in_bounds(app)
       THEN /\ pc' = "panic"
            /\ UNCHANGED <<app, frame>>
       ELSE /\ pc' = "api"
            /\ \/ /\ app' = set_placeholder(app)          \* draw fails: Err
                  /\ UNCHANGED frame
               \/ /\ app' = set_placeholder(app)          \* no child: Err
                  /\ frame' = OutputFrame(set_placeholder(app))
               \/ /\ \E c \in ExitCodes, o \in {<<>>}, e \in {<<"boom">>} :
                       app' = [set_placeholder(app) EXCEPT
                                 !.output_text = format_report(c, o, e)]
                  /\ frame' = OutputFrame(set_placeholder(app))
    /\ UNCHANGED <<height, impl, sys, fs, ret>>

\* App::new(scripts), the list possibly empty
InitApi ==
    /\ \E n \in 0..MaxScripts : app = App_new(ScriptList(n))
    /\ pc = "api"
    /\ frame = NoFrame
    /\ height \in {ShortTerm}
    /\ hist = <<>>
    /\ impl \in {"lib", "main"}
    /\ sys = NoProcess
    /\ fs = NoFs
    /\ ret = NoRet

NextApi ==
    \/ ApiNext
    \/ ApiPrevious
    \/ ApiQuit
    \/ ApiScrollUp
    \/ ApiScrollDown
    \/ ApiShowHelp
    \/ ApiHideHelp
    \/ ApiBackToList
    \/ ApiRunSelectedScript

SpecApi == InitApi /\ [][NextApi]_vars

----------------------------------------------------------------------------
(* Properties *)

KeyEvent == hist # <<>> /\ hist[1].op = "key"
LastOp(op) == hist # <<>> /\ hist[1].op = op
Pre == hist[1].pre

\* the view a state shows: Help before Output before List
current_view(a) ==
    IF a.showing_help THEN "Help"
    ELSE IF a.viewing_output THEN "Output" ELSE "List"

\* C1: with a non-empty script list, selected_index stays within
\* 0 .. len(scripts) - 1 after any sequence of operations on the App.
C1_SelectedIndexInRange ==
    Len(app.scripts) > 0 =>
        /\ 0 <= app.selected_index
        /\ app.selected_index <= Len(app.scripts) - 1

\* next() was called with the cursor on the last of several scripts, and
\* the cursor stayed there
C1_Witness ==
    /\ LastOp("next")
    /\ Len(app.scripts) >= 2
    /\ Pre.selected_index = Len(app.scripts) - 1
    /\ app.selected_index = Len(app.scripts) - 1

\* C2: moveNext adds exactly 1 to selected_index when it is below
\* len(scripts) - 1 and otherwise (empty list, cursor on the last script)
\* changes nothing and does not fail.
C2_MoveNext ==
    LastOp("next") =>
        /\ pc # "panic"
        /\ app = IF Pre.selected_index < Len(Pre.scripts) - 1
                 THEN [Pre EXCEPT !.selected_index = @ + 1]
                 ELSE Pre

\* C3: in Output view a press of Up/k/Down/j changes output_scroll only:
\* selected_index, should_quit, output_text and the view stay as they were.
C3_OutputScrollKeysOnlyScroll ==
    (/\ KeyEvent
     /\ hist[1].key \in UpKeys \cup DownKeys
     /\ current_view(Pre) = "Output")
    => /\ app.selected_index = Pre.selected_index
       /\ app.should_quit = Pre.should_quit
       /\ app.output_text = Pre.output_text
       /\ current_view(app) = "Output"

\* C4: in Output view a key other than Up/k/Down/j does returnToList and
\* nothing else in that key event: no quit, no script run.
C4_OutputOtherKeyOnlyReturns ==
    (/\ KeyEvent
     /\ hist[1].key \notin UpKeys \cup DownKeys
     /\ current_view(Pre) = "Output")
    => /\ app = back_to_list(Pre)
       /\ pc \notin {"spawn", "wait", "panic"}

\* C5: once the script run by Enter has exited the App is in Output view
\* with the report, and every frame the loop draws while that lasts shows
\* the Output view with that report.
C5_LoopFramesShowReport ==
    /\ (KeyEvent /\ hist[1].key = "Enter" /\ app.output_text \in Reports)
          => app.viewing_output
    /\ (pc = "poll" /\ app.viewing_output /\ app.output_text \in Reports)
          => (frame.view = "Output" /\ frame.text = app.output_text)

\* C6: in List view the key ? sets showing_help and changes nothing else.
C6_QuestionMarkShowsHelp ==
    (KeyEvent /\ hist[1].key = "?" /\ current_view(Pre) = "List")
    => app = show_help(Pre)

C8_ViewsExclusive ==
    /\ ~(app.showing_help /\ app.viewing_output)
    /\ (LastOp("show_help") /\ ~Pre.showing_help)
          => current_view(Pre) = "List"

\* C9: in Output view, after a key event, output_scroll is at most
\* max(0, total_lines - visible_height) for the visible_height the
\* renderer computes from the terminal height of that moment.
C9_ScrollWithinRenderedBound ==
    (/\ KeyEvent
     /\ pc = "draw"
     /\ hist[1].arg = height
     /\ app.viewing_output)
    => /\ 0 <= app.output_scroll
       /\ app.output_scroll <=
            saturating_sub(Len(lines(app.output_text)), visible_height(height))

RoundTrip ==
    /\ Len(hist) = 2
    /\ hist[2].op = "scroll_output_up"
    /\ hist[1].op = "scroll_output_down"
    /\ hist[1].arg >= hist[2].pre.output_scroll

\* C10 as stated: scrollUp then scrollDown(n) with n >= the original
\* output_scroll restores output_scroll.
C10_RoundTripAsStated ==
    RoundTrip => app.output_scroll = hist[2].pre.output_scroll

\* C10, amended: scrollUp then scrollDown(n) with n >= the original
\* output_scroll v restores v when v >= 1 or n = 0 (from v = 0 a
\* scrollDown(n) with n >= 1 ends at 1).
C10_RoundTripFromPositive ==
    (RoundTrip /\ (hist[2].pre.output_scroll >= 1 \/ hist[1].arg = 0))
    => app.output_scroll = hist[2].pre.output_scroll

\* a round trip from a positive offset below the cap
C10_Witness ==
    /\ RoundTrip
    /\ hist[2].pre.output_scroll >= 1
    /\ hist[1].arg > hist[2].pre.output_scroll
    /\ app.output_scroll = hist[2].pre.output_scroll


\* C11: after scrollDown(maxScroll), output_scroll <= maxScroll whatever
\* the value before and whatever maxScroll; a value below maxScroll has
\* grown by exactly 1 and a value equal to maxScroll is unchanged.
C11_ScrollDownCapped ==
    LastOp("scroll_output_down") =>
        /\ app.output_scroll <= hist[1].arg
        /\ Pre.output_scroll < hist[1].arg
              => app.output_scroll = Pre.output_scroll + 1
        /\ Pre.output_scroll = hist[1].arg
              => app.output_scroll = Pre.output_scroll

\* C12: returnToList, called in any state, yields an empty output_text,
\* output_scroll = 0 and viewing_output = false.
C12_BackToListResets ==
    LastOp("back_to_list") =>
        /\ app.output_text = <<>>
        /\ app.output_scroll = 0
        /\ app.viewing_output = FALSE

\* back_to_list() was called in Output view with a text and a scroll offset
C12_Witness ==
    /\ LastOp("back_to_list")
    /\ Pre.viewing_output
    /\ Pre.output_text # <<>>
    /\ Pre.output_scroll > 0
    /\ app.output_scroll = 0


\* C13: should_quit is terminal: once true it is never set back to false,
\* the input loop has exited and handles no further event.
C13_QuitIsTerminal ==
    /\ [](app.should_quit => pc \in {"exited", "done"})
    /\ [][app.should_quit =>
            /\ app'.should_quit
            /\ pc' = "done"
            /\ hist' = hist
            /\ frame' = frame]_vars

\* q was pressed in List view and the loop has exited
C13_Witness ==
    /\ KeyEvent
    /\ hist[1].key = "q"
    /\ ~Pre.should_quit
    /\ app.should_quit
    /\ pc = "done"

SpawnErrorTexts == {error_text(e) : e \in SpawnErrors}

\* C14: when the selected script cannot be started, the key event ends in
\* Output view with an error string as output_text, should_quit false and
\* the loop running.
C14_LaunchErrorShown ==
    [][(pc = "spawn" /\ pc' # "wait") =>
          /\ app'.viewing_output
          /\ app'.output_text \in SpawnErrorTexts
          /\ ~app'.should_quit
          /\ pc' = "draw"]_vars

\* the launch failed and the loop is about to draw again
C14_Witness ==
    /\ KeyEvent
    /\ hist[1].key = "Enter"
    /\ app.output_text \in SpawnErrorTexts
    /\ app.viewing_output
    /\ pc = "draw"

\* C15: every terminal error ends the loop: a failed draw of the loop, a
\* failed draw of the placeholder frame, a failed poll or read.
C15_TerminalErrorsEndLoop ==
    [][(\/ DrawFail
        \/ PollFail
        \/ (KeyEnter /\ pc' \notin {"spawn", "panic"}))
       => pc' = "failed"]_vars

\* C16: whenever the process has ended after raw mode was enabled, raw mode
\* is disabled and the alternate screen has been left.
C16_TerminalReleasedOnExit ==
    pc = "done" => (~sys.raw_mode /\ ~sys.alt_screen)

LoopPcs == {"draw", "poll", "spawn", "wait", "exited", "failed", "panic"}

\* C17: raw mode is acquired and the loop entered only with a directory
\* argument and a successful, non-empty scan; a missing argument and an
\* empty scan end the program with status 0 and an unreadable root ends it
\* with a failure, all three without a frame ever drawn.
C17_StartupGuards ==
    /\ (sys.raw_mode \/ sys.alt_screen \/ pc \in LoopPcs \/ frame # NoFrame)
          => (sys.args /\ sys.scan.ok /\ Len(sys.scan.scripts) >= 1)
    /\ (pc = "done" /\ ~sys.args) => sys.status = 0
    /\ (pc = "done" /\ sys.args /\ sys.scan.ok /\ Len(sys.scan.scripts) = 0)
          => sys.status = 0
    /\ (pc = "done" /\ sys.args /\ ~sys.scan.ok) => sys.status # 0

\* the scan found nothing and the program ended with status 0
C17_Witness ==
    /\ pc = "done"
    /\ sys.args
    /\ sys.scan.ok
    /\ Len(sys.scan.scripts) = 0
    /\ sys.exited
    /\ sys.status = 0
    /\ ~sys.raw_mode

\* C18: while the child is being started or is running, output_text is the
\* placeholder, the view is Output and the frame on the terminal shows the
\* placeholder; a report is in output_text only once the child has exited.
C18_PlaceholderBeforeChild ==
    /\ pc \in {"spawn", "wait"} =>
          /\ app.output_text = Placeholder
          /\ app.viewing_output
          /\ frame.view = "Output"
          /\ frame.text = Placeholder
    /\ (KeyEvent /\ hist[1].key = "Enter" /\ app.output_text \in Reports)
          => hist[1].output.exited

\* the child runs while the placeholder frame is on the terminal
C18_Witness ==
    /\ pc = "wait"
    /\ app.output_text = Placeholder
    /\ frame.text = Placeholder

\* the child of the last key event has exited and its report is shown
Reported == KeyEvent /\ hist[1].output.exited /\ app.viewing_output

\* C19: the header of the report is the success header exactly when the
\* exit code is 0; otherwise it is the failure header with the exit code,
\* -1 when the child ended without one.
C19_ReportHeader ==
    Reported =>
        LET c == hist[1].output.code
            t == app.output_text
        IN  IF c = Some(0)
            THEN SubSeq(t, 1, 3) = <<SuccessHeader, NL, "Exit code: 0">>
            ELSE SubSeq(t, 1, 4) =
                   <<FailureHeader, NL, "Exit code: ",
                     IF c.some THEN ToString(c.v) ELSE "-1">>

\* a child killed by a signal was reported
C19_Witness ==
    /\ Reported
    /\ hist[1].output.code = None
    /\ app.output_text[1] = FailureHeader

\* position of the first token tok of text t (0 when absent)
IndexOf(t, tok) ==
    IF \E i \in 1..Len(t) : t[i] = tok
    THEN CHOOSE i \in 1..Len(t) : t[i] = tok /\ \A j \in 1..(i - 1) : t[j] # tok
    ELSE 0

\* C20: in the report the OUTPUT section is the captured standard output,
\* or (no output) when that is empty; the ERRORS section is the captured
\* standard error, or (none) when that is empty; OUTPUT comes first.
C20_ReportSections ==
    Reported =>
        LET t == app.output_text
            o == IndexOf(t, "=== OUTPUT ===")
            e == IndexOf(t, "=== ERRORS ===")
            out == hist[1].output.stdout
            err == hist[1].output.stderr
        IN  /\ 0 < o
            /\ o < e
            /\ SubSeq(t, o + 2, e - 3) =
                 (IF out = <<>> THEN <<"(no output)">>
                                ELSE from_utf8_lossy(out))
            /\ SubSeq(t, e + 2, Len(t)) =
                 (IF err = <<>> THEN <<"(none)">>
                                ELSE from_utf8_lossy(err))
            /\ SubSeq(t, e - 2, e + 1) = <<NL, NL, "=== ERRORS ===", NL>>
            /\ t[o + 1] = NL

\* the scenario of the spec: exit code 2, no stdout, stderr "boom"
C20_Witness ==
    /\ Reported
    /\ hist[1].output = Output(Some(2), <<>>, <<"boom">>)
    /\ app.output_text =
         <<FailureHeader, NL, "Exit code: ", "2", NL, NL, "=== OUTPUT ===", NL,
           "(no output)", NL, NL, "=== ERRORS ===", NL, "boom">>

----------------------------------------------------------------------------
(* Properties of the Description Extractor *)

\* the character at position i of line l ("" past its end)
At(l, i) == IF i \in 1..Len(l) THEN l[i] ELSE ""

\* positions of the first and the last character that is no white space
FirstInk(l) ==
    IF \E i \in 1..Len(l) : l[i] # " "
    THEN CHOOSE i \in 1..Len(l) : l[i] # " " /\ \A j \in 1..(i - 1) : l[j] = " "
    ELSE 0
LastInk(l) ==
    IF \E i \in 1..Len(l) : l[i] # " "
    THEN CHOOSE i \in 1..Len(l) :
            l[i] # " " /\ \A j \in (i + 1)..Len(l) : l[j] = " "
    ELSE 0

Blank(l) == FirstInk(l) = 0
Shebang(l) ==
    /\ ~Blank(l)
    /\ At(l, FirstInk(l)) = "#"
    /\ At(l, FirstInk(l) + 1) = "!"

\* length of the comment marker the line starts with (0: none)
MarkerLen(l) ==
    IF Blank(l) THEN 0
    ELSE IF At(l, FirstInk(l)) = "#" THEN 1
    ELSE IF /\ At(l, FirstInk(l)) \in {"/", "-"}
            /\ At(l, FirstInk(l) + 1) = At(l, FirstInk(l)) THEN 2
    ELSE 0

\* what follows the marker, without the white space around it
MarkedText(l) ==
    LET rest == SubSeq(l, FirstInk(l) + MarkerLen(l), Len(l))
    IN  IF Blank(rest) THEN <<>>
        ELSE SubSeq(rest, FirstInk(rest), LastInk(rest))

EmptyComment(l) == MarkerLen(l) > 0 /\ ~Shebang(l) /\ MarkedText(l) = <<>>
Skipped(l) == Blank(l) \/ Shebang(l) \/ EmptyComment(l)

\* the first line that is not skipped (0: every line is)
FirstRemaining(ls) ==
    IF \E i \in 1..Len(ls) : ~Skipped(ls[i])
    THEN CHOOSE i \in 1..Len(ls) :
            ~Skipped(ls[i]) /\ \A j \in 1..(i - 1) : Skipped(ls[j])
    ELSE 0

\* extract_description was called on a file that opens and whose lines,
\* up to the first that is not skipped, are valid UTF-8
Extracted ==
    /\ pc = "extracted"
    /\ fs.open_ok
    /\ \A i \in 1..Len(fs.lines) :
          (FirstRemaining(fs.lines) = 0 \/ i <= FirstRemaining(fs.lines))
             => is_utf8(fs.lines[i])

\* C25: extract_description skips blank lines, shebang lines and comment
\* lines with nothing after the marker; if the first line left starts with
\* #, // or -- it returns what follows the marker, trimmed.  A description
\* it returns is never empty and neither starts nor ends with white space.
C25_DescriptionOfFirstComment ==
    /\ Extracted =>
          LET i == FirstRemaining(fs.lines)
          IN  (i > 0 /\ MarkerLen(fs.lines[i]) > 0)
                 => /\ ret.ok
                    /\ ret.v.some
                    /\ ret.v.v = MarkedText(fs.lines[i])
    /\ (pc = "extracted" /\ ret.ok /\ ret.v.some) =>
          /\ ret.v.v # <<>>
          /\ Head(ret.v.v) # " "
          /\ ret.v.v[Len(ret.v.v)] # " "

\* the scenario of the spec: an empty comment line, then "# x"
C25_Witness ==
    /\ Extracted
    /\ fs.lines = << <<"#">>, <<"#", " ", "x">> >>
    /\ ret.ok
    /\ ret.v.some
    /\ ret.v.v = <<"x">>

\* C26: extract_description returns Ok(None) when every line is blank, a
\* shebang or an empty comment, and when the first other line starts with
\* no marker: comment lines after that line are not used.
C26_NoDescription ==
    Extracted =>
        LET i == FirstRemaining(fs.lines)
        IN  (i = 0 \/ MarkerLen(fs.lines[i]) = 0)
               => (ret.ok /\ ~ret.v.some)

\* a line of code comes first and a comment with text follows it
C26_Witness ==
    /\ Extracted
    /\ Len(fs.lines) = 2
    /\ FirstRemaining(fs.lines) = 1
    /\ MarkerLen(fs.lines[1]) = 0
    /\ MarkerLen(fs.lines[2]) > 0
    /\ MarkedText(fs.lines[2]) # <<>>
    /\ ret.ok
    /\ ~ret.v.some

----------------------------------------------------------------------------
(* Properties of the Directory Scanner *)

\* every directory of the tree can be read
RECURSIVE TreeReadable(_)
TreeReadable(dir) ==
    /\ dir.read_ok
    /\ \A i \in 1..Len(dir.entries) :
          dir.entries[i].kind = "dir" => TreeReadable(dir.entries[i])

\* the entries below dir that are no directories, each with its path
RECURSIVE FilesUnder(_, _)
FilesUnder(dir, path) ==
    UNION {IF dir.entries[i].kind = "dir"
           THEN FilesUnder(dir.entries[i],
                           Append(path, entry_name(dir.entries[i], i)))
           ELSE {[path  |-> Append(path, entry_name(dir.entries[i], i)),
                  entry |-> dir.entries[i]]}
           : i \in 1..Len(dir.entries)}

AllFiles == FilesUnder(fs, RootPath)
AllMetadataReadable == \A f \in AllFiles : f.entry.meta_ok
Executable(f) == f.entry.meta_ok /\ f.entry.mode \cap ExecBits # {}
ExtractionFails(f) ==
    \/ ~f.entry.file.open_ok
    \/ \E i \in 1..Len(f.entry.file.lines) : ~is_utf8(f.entry.file.lines[i])

\* the scan returned a Script with this path
Found(p) == \E k \in 1..Len(ret.scripts) : ret.scripts[k].path = p

\* C21: an entry whose metadata cannot be read never aborts the scan:
\* scan_directory returns Ok with every executable file under the root.
C21_BadEntryDoesNotAbort ==
    (pc = "scanned" /\ TreeReadable(fs)) =>
        /\ ret.ok
        /\ \A f \in AllFiles : Executable(f) => Found(f.path)

\* the files in the directories the scan reads: every directory for lib.rs,
\* the root alone for main.rs (which skips directories, main.rs:222-224)
ReadFiles ==
    IF impl = "lib" THEN AllFiles ELSE {f \in AllFiles : Len(f.path) = 2}

\* C22: when extract_description fails on an executable file, the scan
\* records the file as a Script without description and goes on: it
\* returns Ok with a Script for every executable file it came to.
C22_FailedExtractionIsNoDescription ==
    (pc = "scanned" /\ TreeReadable(fs) /\ AllMetadataReadable) =>
        /\ ret.ok
        /\ \A f \in ReadFiles :
              Executable(f) =>
                 \E k \in 1..Len(ret.scripts) :
                    /\ ret.scripts[k].path = f.path
                    /\ ExtractionFails(f) => ~ret.scripts[k].description.some

\* a script that cannot be read was recorded, and a script after it
C22_Witness ==
    /\ pc = "scanned"
    /\ ret.ok
    /\ \E k \in 1..(Len(ret.scripts) - 1) :
          /\ ~ret.scripts[k].description.some
          /\ \E f \in AllFiles :
                f.path = ret.scripts[k].path /\ ExtractionFails(f)

\* C23: for a readable tree the scan returns exactly one Script for every
\* file, at any depth, with an execute bit set, and none for another file.
C23_ExactlyTheExecutables ==
    (pc = "scanned" /\ TreeReadable(fs) /\ AllMetadataReadable) =>
        /\ ret.ok
        /\ {ret.scripts[k].path : k \in 1..Len(ret.scripts)}
              = {f.path : f \in {g \in AllFiles : Executable(g)}}
        /\ Len(ret.scripts)
              = Cardinality({g \in AllFiles : Executable(g)})

\* C24: a Script found in the root has no category; a Script found in a
\* subdirectory has the name of the directory it is in as its category.
C24_CategoryIsParentName ==
    (pc = "scanned" /\ ret.ok) =>
        \A k \in 1..Len(ret.scripts) :
            LET sc == ret.scripts[k]
            IN  IF Len(sc.path) = 2
                THEN ~sc.category.some
                ELSE /\ sc.category.some
                     /\ sc.category.v = sc.path[Len(sc.path) - 1]

\* a script two directories down, tagged with the inner directory's name
C24_Witness ==
    /\ pc = "scanned"
    /\ ret.ok
    /\ \E k \in 1..Len(ret.scripts) :
          /\ Len(ret.scripts[k].path) = 4
          /\ ret.scripts[k].path[2] # ret.scripts[k].path[3]
          /\ ret.scripts[k].category.some
          /\ ret.scripts[k].category.v = ret.scripts[k].path[3]

----------------------------------------------------------------------------
(* Further properties of the App and of the loop *)

\* C27: the scripts of an App are fixed: no operation on the App changes
\* the contents, the length or the order of the sequence.
C27_ScriptsFixed == [][app'.scripts = app.scripts]_vars

\* next() and run_selected_script() ran on a list of several scripts
C27_Witness ==
    /\ Len(hist) = 2
    /\ hist[2].op = "next"
    /\ hist[1].op = "run_selected_script"
    /\ Len(app.scripts) >= 2
    /\ app.selected_index = 1
    /\ app.scripts = hist[2].pre.scripts

\* C28: scrollUp takes exactly 1 off a positive output_scroll and leaves an
\* output_scroll of 0 at 0, however often it is called.
C28_ScrollUpFloored ==
    LastOp("scroll_output_up") =>
        /\ app.output_scroll >= 0
        /\ Pre.output_scroll > 0 => app.output_scroll = Pre.output_scroll - 1
        /\ Pre.output_scroll = 0 => app.output_scroll = 0
        /\ app = [Pre EXCEPT !.output_scroll = app.output_scroll]

\* scrollUp was called twice from 1: down to 0, then staying at 0
C28_Witness ==
    /\ Len(hist) = 2
    /\ hist[2].op = "scroll_output_up"
    /\ hist[1].op = "scroll_output_up"
    /\ hist[2].pre.output_scroll = 1
    /\ Pre.output_scroll = 0
    /\ app.output_scroll = 0

\* C29: each turn of the loop draws the current state and then handles at
\* most one event: the loop waits for input only right after a draw of the
\* very state the input will act on, the frame then on the terminal shows
\* that state in its view, and a handled event leads away from the wait, so
\* that no second event is handled before the next draw.
C29_DrawThenOneEvent ==
    /\ [](pc = "poll" =>
             /\ frame.by = "run_app"
             /\ frame.selected = app.selected_index
             /\ frame.view = current_view(app)
             /\ app.viewing_output => frame.text = app.output_text)
    /\ [][pc' = "poll" => (pc = "draw" /\ app' = app)]_vars
    /\ [][(app' # app \/ height' # height \/ hist' # hist) =>
             (pc \in {"poll", "spawn", "wait"} /\ pc' # "poll")]_vars

\* C30: while the child runs nothing but its exit happens: no event is
\* handled and no field changes until the report is written; a key read
\* after the report has its Output-view meaning, which neither moves the
\* cursor nor quits.
C30_RunBlocksInput ==
    /\ [][pc = "wait" =>
             /\ pc' # "wait"
             /\ hist'[1].output.exited
             /\ hist'[1].key = hist[1].key
             /\ app' = [app EXCEPT !.output_text = app'.output_text]
             /\ app'.output_text \in Reports]_vars
    /\ []((KeyEvent /\ Pre.viewing_output /\ Pre.output_text \in Reports)
             => (app.selected_index = Pre.selected_index /\ ~app.should_quit))

----------------------------------------------------------------------------
(* Invariants of the running program *)

\* C31: in every state of the input loop, when Output view is not active
\* output_text is empty and output_scroll is 0.
C31_ListViewHasNoOutput ==
    ~app.viewing_output => (app.output_text = <<>> /\ app.output_scroll = 0)

\* a scrolled report was left with a key
C31_Witness ==
    /\ KeyEvent
    /\ Pre.viewing_output
    /\ Pre.output_text \in Reports
    /\ Pre.output_scroll > 0
    /\ ~app.viewing_output
    /\ app.output_text = <<>>
    /\ app.output_scroll = 0

\* C32: in the program, from startup through any key events, every access
\* scripts[selected_index] of the Script Runner and of the Output-view
\* renderer is in bounds: no access panics, and in the loop the list is
\* not empty and selected_index is below its length.
C32_SelectedScriptExists ==
    /\ pc # "panic"
    /\ sys.status # 101
    /\ pc \in LoopPcs =>
          (Len(app.scripts) > 0 /\ app.selected_index < Len(app.scripts))
    /\ frame.view = "Output" => frame.selected < Len(app.scripts)

\* the last of several scripts is running, its Output frame on the terminal
C32_Witness ==
    /\ pc = "wait"
    /\ Len(app.scripts) >= 2
    /\ app.selected_index = Len(app.scripts) - 1
    /\ frame.view = "Output"
    /\ frame.selected = app.selected_index

\* C33: in every state of the input loop in which Output view is active,
\* output_scroll is at most the number of lines of output_text, so the
\* slice the renderer takes has start <= end <= total.
C33_OutputSliceInBounds ==
    app.viewing_output =>
        /\ app.output_scroll <= Len(lines(app.output_text))
        /\ slice_start(app) <= slice_end(app, height)
        /\ slice_end(app, height) <= Len(lines(app.output_text))

\* a long report scrolled down as far as the loop lets it
C33_Witness ==
    /\ KeyEvent
    /\ hist[1].key = "j"
    /\ app.viewing_output
    /\ app.output_text \in Reports
    /\ app.output_scroll = Pre.output_scroll + 1
    /\ app.output_scroll = Len(lines(app.output_text)) - visible

\* C34: each operation changes its own fields only: next and previous
\* selected_index, the two scroll operations output_scroll, show_help and
\* hide_help showing_help, quit should_quit, and back_to_list
\* viewing_output, output_text and output_scroll.
C34_OperationsChangeOwnFields ==
    (hist # <<>> /\ pc = "api") =>
        /\ hist[1].op \in {"next", "previous"}
              => app = [Pre EXCEPT !.selected_index = app.selected_index]
        /\ hist[1].op \in {"scroll_output_up", "scroll_output_down"}
              => app = [Pre EXCEPT !.output_scroll = app.output_scroll]
        /\ hist[1].op \in {"show_help", "hide_help"}
              => app = [Pre EXCEPT !.showing_help = app.showing_help]
        /\ hist[1].op = "quit"
              => app = [Pre EXCEPT !.should_quit = app.should_quit]
        /\ hist[1].op = "back_to_list"
              => app = [Pre EXCEPT !.viewing_output = app.viewing_output,
                                   !.output_text = app.output_text,
                                   !.output_scroll = app.output_scroll]

\* show_help was called on an App showing a scrolled report, cursor moved
C34_Witness ==
    /\ LastOp("show_help")
    /\ ~Pre.showing_help
    /\ Pre.viewing_output
    /\ Pre.output_scroll > 0
    /\ Pre.selected_index > 0
    /\ app = [Pre EXCEPT !.showing_help = TRUE]

====
